---- MODULE Spec2Model ----
(***************************************************************************)
(* A model of pyrtl/wire.py: the WireVector algebra that turns expressions *)
(* over bit-vector handles into the nets of a block.                       *)
(*                                                                         *)
(* A handle is its position in the block's list of wirevectors.  Every     *)
(* method of wire.py is an operator from a block value b to a block value: *)
(* the wirevectors and nets the call left in the block, the resolver calls *)
(* it made, what it returned (ret) and whether it raised (err).  A call    *)
(* that raises keeps whatever it had already put into the block, as a      *)
(* Python exception does.                                                  *)
(***************************************************************************)
EXTENDS Integers, Sequences, FiniteSets

VARIABLES
  wirevector,  \* the block's wirevectors, in the order they were added
  logic,       \* the block's nets, in the order they were added
  regcalls,    \* the calls made to ConditionalUpdate._register_set
  under,       \* ConditionalUpdate.currently_under_condition()
  drive,       \* the values driven on the declared handles, for evaluation
  budget,      \* the calls the construction pass has still to make
  last         \* the last call made and its outcome

vars == <<wirevector, logic, regcalls, under, drive, budget, last>>

\* ------------------------------------------------------------------ bounds
MaxWidth == 2
MaxInt == 3
MaxNets == 4
MaxWires == 7
MaxCalls == 2
RegCalls == 3
OpWidth == 3
ExtWidth == 4
SliceWidth == 8

\* `bitwidth=None`, `reg_in = None`: a number no width, value or handle takes.
None == -99

\* ------------------------------------------------------------ the classes
UnsignedCodes == {"W", "I", "O", "C", "R"}
SignedCodes == {"SW", "SI", "SO", "SC", "SR"}
InputCodes == {"I", "SI"}
OutputCodes == {"O", "SO"}
ConstCodes == {"C", "SC"}
RegisterCodes == {"R", "SR"}
PlainCodes == {"W", "SW"}

\* ------------------------------------------------------------- the block
Blk(wv, nets, calls) ==
  [wv |-> wv, nets |-> nets, calls |-> calls, ret |-> None, err |-> FALSE]

Raise(b) == [b EXCEPT !.err = TRUE, !.ret = None]

Return(b, r) == [b EXCEPT !.ret = r]

\* One statement after another: K runs on the block r left, unless r raised
\* (an exception ends the method where it is raised).
Then(r, K(_)) == CHOOSE y \in {IF x.err THEN x ELSE K(x) : x \in {r}} : TRUE

LogicNet(op, op_param, args, dests) ==
  [op |-> op, op_param |-> op_param, args |-> args, dests |-> dests]

add_net(b, net) == [b EXCEPT !.nets = Append(@, net)]

add_wirevector(b, w) == Return([b EXCEPT !.wv = Append(@, w)], Len(b.wv) + 1)

len(b, self) == b.wv[self].bitwidth

\* WireVector.__init__: the bitwidth is checked before the handle joins the block.
WireVector_init(b, code, bitwidth, val) ==
  IF bitwidth # None /\ bitwidth <= 0
  THEN Raise(b)
  ELSE add_wirevector(b, [code |-> code, bitwidth |-> bitwidth, val |-> val,
                          reg_in |-> None, is_conditional |-> FALSE])

\* ----------------------------------------------------------------- Const
RECURSIVE BinDigits(_)
BinDigits(n) == IF n < 2 THEN 1 ELSE 1 + BinDigits(n \div 2)

\* len(bin(num)) - 2: bin(-3) is '-0b11', so a negative number counts its sign.
BinLen(num) == IF num < 0 THEN 1 + BinDigits(-num) ELSE BinDigits(num)

RECURSIVE Pow2(_)
Pow2(n) == IF n <= 0 THEN 1 ELSE 2 * Pow2(n - 1)

\* num >> bitwidth, for num >= 0 and bitwidth >= 0.
ShiftRight(num, bitwidth) == num \div Pow2(bitwidth)

\* The checks without the one that the value fits the bitwidth.
Const_check_no_fit(b, code, num, bitwidth) ==
  IF num < 0 THEN Raise(b)
  ELSE IF bitwidth < 0 THEN Raise(b)
  ELSE WireVector_init(b, code, bitwidth, num)

\* The checks of Const.__init__ once num and bitwidth are known, then the
\* WireVector constructor.
Const_check(b, code, num, bitwidth) ==
  IF num < 0 THEN Raise(b)
  ELSE IF bitwidth < 0 THEN Raise(b)
  ELSE IF ShiftRight(num, bitwidth) # 0 THEN Raise(b)
  ELSE WireVector_init(b, code, bitwidth, num)

\* Const(val, bitwidth) for an int val.
Const_init(b, code, val, bitwidth) ==
  Const_check(b, code, val, IF bitwidth = None THEN BinLen(val) ELSE bitwidth)

\* The characters of the literal strings, with their digit values.
DigitVal(c) ==
  CASE c = "0" -> 0 [] c = "1" -> 1 [] c = "2" -> 2 [] c = "3" -> 3
    [] c = "4" -> 4 [] c = "5" -> 5 [] c = "6" -> 6 [] c = "7" -> 7
    [] c = "8" -> 8 [] c = "9" -> 9 [] c = "a" -> 10 [] c = "f" -> 15
    [] OTHER -> 99

\* The digits of s in the given base, most significant first; None when s is
\* empty or holds a character that is no digit of the base (ValueError).
RECURSIVE DigitsValue(_, _, _)
DigitsValue(s, base, acc) ==
  IF s = <<>> THEN acc
  ELSE IF DigitVal(Head(s)) >= base THEN None
  ELSE DigitsValue(Tail(s), base, acc * base + DigitVal(Head(s)))

\* int(s): a decimal number with an optional sign.
ParseDec(s) ==
  IF s = <<>> THEN None
  ELSE IF Head(s) = "-"
       THEN IF Tail(s) = <<>> \/ DigitsValue(Tail(s), 10, 0) = None THEN None
            ELSE 0 - DigitsValue(Tail(s), 10, 0)
       ELSE DigitsValue(s, 10, 0)

\* int('0' + s, 0) of Python 2: the prefix after the 0 picks the base, and a
\* bare run of digits after the 0 is octal.
ParseAuto(s) ==
  IF s = <<>> THEN 0
  ELSE IF Head(s) \in {"b", "B"}
       THEN IF Tail(s) = <<>> THEN None ELSE DigitsValue(Tail(s), 2, 0)
  ELSE IF Head(s) \in {"x", "X"}
       THEN IF Tail(s) = <<>> THEN None ELSE DigitsValue(Tail(s), 16, 0)
  ELSE IF Head(s) \in {"o", "O"}
       THEN IF Tail(s) = <<>> THEN None ELSE DigitsValue(Tail(s), 8, 0)
  ELSE DigitsValue(s, 8, 0)

\* string.split(val, "'"): the positions of the separator.
Quotes(s) == {i \in 1..Len(s) : s[i] = "'"}

\* Const(val) for a string val (bitwidth unspecified).
Const_init_str(b, code, s) ==
  IF Cardinality(Quotes(s)) # 1 THEN Raise(b)
  ELSE LET q == CHOOSE i \in Quotes(s) : TRUE
           bitwidth == ParseDec(SubSeq(s, 1, q - 1))
           num == ParseAuto(SubSeq(s, q + 1, Len(s)))
       IN IF bitwidth = None \/ num = None THEN Raise(b)
          ELSE Const_check(b, code, num, bitwidth)

\* Const(val, bitwidth) for a string val: the bitwidth must be left out.
Const_init_str_bw(b, code, s, bitwidth) ==
  IF bitwidth # None THEN Raise(b) ELSE Const_init_str(b, code, s)

\* ------------------------------------------------------- slicing, select
IntItem(i) == [isint |-> TRUE, i |-> i, start |-> None, stop |-> None, step |-> None]

SliceItem(start, stop, step) ==
  [isint |-> FALSE, i |-> None, start |-> start, stop |-> stop, step |-> step]

\* The bounds a slice takes on a list of n elements (slice.indices).
SliceStep(item) == IF item.step = None THEN 1 ELSE item.step

SliceClamp(n, x, step, dflt_pos, dflt_neg) ==
  IF x = None THEN (IF step < 0 THEN dflt_neg ELSE dflt_pos)
  ELSE IF x < 0
       THEN IF x + n < 0 THEN (IF step < 0 THEN -1 ELSE 0) ELSE x + n
       ELSE IF x >= n THEN (IF step < 0 THEN n - 1 ELSE n) ELSE x

SliceStart(n, item) == SliceClamp(n, item.start, SliceStep(item), 0, n - 1)

SliceStop(n, item) == SliceClamp(n, item.stop, SliceStep(item), n, -1)

SliceLength(start, stop, step) ==
  IF step > 0
  THEN IF start < stop THEN (stop - start - 1) \div step + 1 ELSE 0
  ELSE IF stop < start THEN (start - stop - 1) \div (0 - step) + 1 ELSE 0

\* The selection with allindex built as [1, ..., n].
selectednums_from_one(n, item) ==
  IF item.isint
  THEN <<(IF item.i < 0 THEN item.i + n ELSE item.i) + 1>>
  ELSE [k \in 1..SliceLength(SliceStart(n, item), SliceStop(n, item), SliceStep(item))
          |-> SliceStart(n, item) + (k - 1) * SliceStep(item) + 1]

\* allindex[item] for allindex = [0, ..., n-1]: the selected numbers, in order.
\* Only called on an item Python accepts (see ItemRaises).
selectednums(n, item) ==
  IF item.isint
  THEN <<(IF item.i < 0 THEN item.i + n ELSE item.i)>>
  ELSE LET step == SliceStep(item)
           start == SliceStart(n, item)
           stop == SliceStop(n, item)
       IN [k \in 1..SliceLength(start, stop, step) |-> start + (k - 1) * step]

\* IndexError for an integer outside -n..n-1, ValueError for a zero step.
ItemRaises(n, item) ==
  IF item.isint THEN item.i >= n \/ item.i < 0 - n ELSE item.step = 0

\* WireVector.__getitem__
getitem(b, self, item) ==
  IF len(b, self) = None THEN Raise(b)
  ELSE IF ItemRaises(len(b, self), item) THEN Raise(b)
  ELSE Then(WireVector_init(b, "W", Len(selectednums(len(b, self), item)), None),
            LAMBDA outwire :
              Return(add_net(outwire,
                       LogicNet("s", selectednums(len(b, self), item),
                                <<self>>, <<outwire.ret>>)),
                     outwire.ret))

\* helperfuncs.concat(a, b): a is the most significant part.
concat(b, hi, lo) ==
  Then(WireVector_init(b, "W", len(b, hi) + len(b, lo), None),
       LAMBDA out :
         Return(add_net(out, LogicNet("c", <<>>, <<hi, lo>>, <<out.ret>>)),
                out.ret))

\* ------------------------------------------------------------- extension
extend_with_bit(b, self, bitwidth, extbit) ==
  IF len(b, self) = None THEN Raise(b)
  ELSE IF bitwidth - len(b, self) = 0 THEN Return(b, self)
  ELSE IF bitwidth - len(b, self) < 0 THEN Raise(b)
  ELSE Then(WireVector_init(b, "W", bitwidth - len(b, self), None),
            LAMBDA extvector :
              Then(add_net(extvector,
                     LogicNet("s", [k \in 1..(bitwidth - len(b, self)) |-> 0],
                              <<extbit>>, <<extvector.ret>>)),
                   LAMBDA b1 : concat(b1, extvector.ret, self)))

\* The argument self[-1] is evaluated before _extend_with_bit is entered.
sign_extended(b, self, bitwidth) ==
  Then(getitem(b, self, IntItem(-1)),
       LAMBDA msb : extend_with_bit(msb, self, bitwidth, msb.ret))

\* The argument Const(0, bitwidth=1) is built before _extend_with_bit is entered.
zero_extended(b, self, bitwidth) ==
  Then(Const_init(b, "C", 0, 1),
       LAMBDA zero : extend_with_bit(zero, self, bitwidth, zero.ret))

\* extended with no Signed class overriding it.
extended_never_signed(b, self, bitwidth) == zero_extended(b, self, bitwidth)

\* extended: WireVector's rule, overridden by each Signed class.
extended(b, self, bitwidth) ==
  IF b.wv[self].code \in SignedCodes
  THEN sign_extended(b, self, bitwidth)
  ELSE zero_extended(b, self, bitwidth)

\* -------------------------------------------------------------- operands
IntOp(k) == [int |-> TRUE, v |-> k]

WireOp(i) == [int |-> FALSE, v |-> i]

\* helperfuncs.as_wires(val, bitwidth, block)
as_wires(b, val, bitwidth) ==
  IF val.int THEN Const_init(b, "C", val.v, bitwidth)
  ELSE IF bitwidth = None \/ len(b, val.v) = None \/ len(b, val.v) = bitwidth
       THEN Return(b, val.v)
  ELSE IF bitwidth < len(b, val.v) THEN Raise(b)
  ELSE extended(b, val.v, bitwidth)

\* ------------------------------------------------------------ assignment
WireVector_ilshift(b, self, other) ==
  Then(as_wires(b, other, len(b, self)),
       LAMBDA o :
         Then(IF len(o, self) = None
              THEN [o EXCEPT !.wv[self].bitwidth = len(o, o.ret)]
              ELSE o,
              LAMBDA b1 :
                Return(add_net(b1, LogicNet("w", <<>>, <<o.ret>>, <<self>>)), self)))

\* self <<= other, by the class of self.
ilshift(b, self, other) ==
  IF b.wv[self].code \in InputCodes \cup ConstCodes \cup RegisterCodes
  THEN Raise(b)
  ELSE WireVector_ilshift(b, self, other)

\* ------------------------------------------------------------- operators
BinaryOps == {"&", "|", "^", "+", "-", "*", "<", ">", "="}

\* The rule table with the multiply row giving the sum of two widths grown by
\* the carry bit instead of the doubled width.
resultlen_mulcarry(n, op) ==
  IF op \in {"+", "-", "*"} THEN n + 1
  ELSE IF op \in {"<", ">", "="} THEN 1
  ELSE n

resultlen(n, op) ==
  IF op \in {"+", "-"} THEN n + 1
  ELSE IF op \in {"*"} THEN n * 2
  ELSE IF op \in {"<", ">", "="} THEN 1
  ELSE n

logicop(b, self, other, op) ==
  Then(as_wires(b, other, None),
       LAMBDA b0 :
         IF len(b0, self) = None \/ len(b0, b0.ret) = None THEN Raise(b0)
         ELSE Then(IF len(b0, self) < len(b0, b0.ret)
                   THEN extended(b0, self, len(b0, b0.ret))
                   ELSE Return(b0, self),
                   LAMBDA ea :
                     Then(IF len(b0, b0.ret) < len(b0, self)
                          THEN extended(ea, b0.ret, len(b0, self))
                          ELSE Return(ea, b0.ret),
                          LAMBDA eb :
                            Then(WireVector_init(eb, "W",
                                                 resultlen(len(eb, ea.ret), op), None),
                                 LAMBDA s :
                                   Return(add_net(s, LogicNet(op, <<>>,
                                                     <<ea.ret, eb.ret>>, <<s.ret>>)),
                                          s.ret)))))

\* The operator methods that take self op other.
binary(b, self, other, op) == logicop(b, self, other, op)

\* The reflected methods (__rand__, __rsub__, ...): Python hands other op self
\* to self when other is a plain integer.
rbinary(b, self, other, op) == logicop(b, self, other, op)

invert(b, self) ==
  IF len(b, self) = None THEN Raise(b)
  ELSE Then(WireVector_init(b, "W", len(b, self), None),
            LAMBDA outwire :
              Return(add_net(outwire,
                       LogicNet("~", <<>>, <<self>>, <<outwire.ret>>)),
                     outwire.ret))

\* -------------------------------------------------------------- Register
\* conditional.ConditionalUpdate._register_set(reg, rhs)
register_set(b, reg, rhs) ==
  [b EXCEPT !.calls = Append(@, <<reg, rhs>>), !.wv[reg].is_conditional = TRUE]

\* Register._next_ilshift: the value of `r.next <<= other`, a _NextSetter
\* holding the coerced right-hand side.
next_ilshift(b, self, other) ==
  Then(as_wires(b, other, len(b, self)),
       LAMBDA o :
         IF len(o, self) = None
         THEN Return([o EXCEPT !.wv[self].bitwidth = len(o, o.ret)], o.ret)
         ELSE o)

\* The setter with the conditional branch falling through into the normal
\* one: under a condition the 'r' net is emitted as well.
next_setter_fallthrough(b, self, isnextsetter, rhs, cond) ==
  IF ~isnextsetter THEN Raise(b)
  ELSE IF b.wv[self].reg_in # None THEN Raise(b)
  ELSE IF ~cond
       THEN Return(add_net([b EXCEPT !.wv[self].reg_in = rhs],
                           LogicNet("r", <<>>, <<rhs>>, <<self>>)), None)
       ELSE Return(register_set(add_net(b, LogicNet("r", <<>>, <<rhs>>, <<self>>)),
                                self, rhs), None)

\* The setter without its check that reg_in is still None.
next_setter_unchecked(b, self, isnextsetter, rhs, cond) ==
  IF ~isnextsetter THEN Raise(b)
  ELSE IF ~cond
       THEN Return(add_net([b EXCEPT !.wv[self].reg_in = rhs],
                           LogicNet("r", <<>>, <<rhs>>, <<self>>)), None)
       ELSE Return(register_set(b, self, rhs), None)

\* Register.next (setter): isnextsetter tells a _NextSetter from anything else.
next_setter(b, self, isnextsetter, rhs, cond) ==
  IF ~isnextsetter THEN Raise(b)
  ELSE IF b.wv[self].reg_in # None THEN Raise(b)
  ELSE IF ~cond
       THEN Return(add_net([b EXCEPT !.wv[self].reg_in = rhs],
                           LogicNet("r", <<>>, <<rhs>>, <<self>>)), None)
       ELSE Return(register_set(b, self, rhs), None)

\* The statement `r.next <<= other`: the property is read, shifted into, and
\* the result assigned back through the setter.
next_stmt(b, self, other, cond) ==
  Then(next_ilshift(b, self, other),
       LAMBDA s : next_setter(s, self, TRUE, s.ret, cond))

\* ------------------------------------------------------------ evaluation
\* The value a select net gives: bit k of the output is bit op_param[k] of
\* the input (bit 0 is the least significant).
Bit(v, i) == (v \div Pow2(i)) % 2

RECURSIVE SelectValue(_, _)
SelectValue(v, op_param) ==
  IF op_param = <<>> THEN 0
  ELSE Bit(v, Head(op_param)) + 2 * SelectValue(v, Tail(op_param))

\* The value a concat net gives: hi above the lowidth bits of lo.
ConcatValue(hi, lo, lowidth) == hi * Pow2(lowidth) + lo

\* The value on handle w: a Const's own value, the value its net computes
\* (select, concat and copy nets), or the value driven on it from outside.
RECURSIVE Eval(_, _, _, _)
Eval(wv, nets, drv, w) ==
  IF wv[w].code \in ConstCodes THEN wv[w].val
  ELSE LET from == {k \in 1..Len(nets) : nets[k].dests = <<w>>}
       IN IF from = {} THEN (IF w \in DOMAIN drv THEN drv[w] ELSE 0)
          ELSE LET net == nets[CHOOSE k \in from : TRUE]
               IN CASE net.op = "s" ->
                         SelectValue(Eval(wv, nets, drv, net.args[1]), net.op_param)
                    [] net.op = "c" ->
                         ConcatValue(Eval(wv, nets, drv, net.args[1]),
                                     Eval(wv, nets, drv, net.args[2]),
                                     wv[net.args[2]].bitwidth)
                    [] net.op = "w" -> Eval(wv, nets, drv, net.args[1])
                    [] OTHER -> 0

\* ------------------------------------------------------------- the calls
\* What is recorded of a call: its name and arguments (op is the operator of
\* an operator call and the class of a constructor call), the block before it
\* (b0), whether a conditional scope was open, and its outcome.
Call(name, self, other, op, arg, item, str) ==
  [call |-> name, self |-> self, other |-> other, op |-> op, arg |-> arg,
   item |-> item, str |-> str, b0 |-> Blk(<<>>, <<>>, <<>>), cond |-> FALSE,
   ret |-> None, err |-> FALSE]

NoCall == Call("init", 0, IntOp(0), "", None, IntItem(0), <<>>)

Handles == 1..Len(wirevector)

Resolved == {i \in Handles : wirevector[i].bitwidth # None}

Registers == {i \in Handles : wirevector[i].code \in RegisterCodes}

Operands(ints) == {WireOp(i) : i \in Resolved} \cup {IntOp(k) : k \in ints}

Block == Blk(wirevector, logic, regcalls)

\* A call is made while the pass has calls left and its outcome fits the
\* bounds; it leaves the block as the call left it.
Commit(r, c) ==
  /\ budget > 0
  /\ Len(r.wv) <= MaxWires
  /\ Len(r.nets) <= MaxNets
  /\ wirevector' = r.wv
  /\ logic' = r.nets
  /\ regcalls' = r.calls
  /\ budget' = budget - 1
  /\ last' = [c EXCEPT !.b0 = Block, !.cond = under, !.ret = r.ret, !.err = r.err]
  /\ UNCHANGED <<under, drive>>

\* WireVector(bitwidth), Input(bitwidth), Output(bitwidth), Register(bitwidth)
\* and their Signed classes.
Declare(codes, widths) ==
  \E code \in codes \ ConstCodes : \E bitwidth \in widths :
    Commit(WireVector_init(Block, code, bitwidth, None),
           Call("declare", 0, IntOp(0), code, bitwidth, IntItem(0), <<>>))

\* Const(val, bitwidth), SignedConst(val, bitwidth) for an int val.
NewConst(vals, widths) ==
  \E code \in ConstCodes : \E val \in vals : \E bitwidth \in widths :
    Commit(Const_init(Block, code, val, bitwidth),
           Call("const", 0, IntOp(val), code, bitwidth, IntItem(0), <<>>))

\* Const(val), Const(val, bitwidth) for a string val.
NewConstStr(strs, widths) ==
  \E code \in ConstCodes : \E s \in strs : \E bitwidth \in widths :
    Commit(Const_init_str_bw(Block, code, s, bitwidth),
           Call("conststr", 0, IntOp(0), code, bitwidth, IntItem(0), s))

\* self <<= other
Assign(ints) ==
  \E self \in Handles : \E other \in Operands(ints) :
    Commit(ilshift(Block, self, other),
           Call("ilshift", self, other, "", None, IntItem(0), <<>>))

\* self op other
Binary(ops, ints) ==
  \E self \in Handles : \E other \in Operands(ints) : \E op \in ops :
    Commit(binary(Block, self, other, op),
           Call("binary", self, other, op, None, IntItem(0), <<>>))

\* k op self, for a plain integer k
RBinary(ops, ints) ==
  \E self \in Handles : \E k \in ints : \E op \in ops :
    Commit(rbinary(Block, self, IntOp(k), op),
           Call("rbinary", self, IntOp(k), op, None, IntItem(0), <<>>))

\* ~self
Invert ==
  \E self \in Handles :
    Commit(invert(Block, self),
           Call("invert", self, IntOp(0), "~", None, IntItem(0), <<>>))

\* self[item]
GetItem(items) ==
  \E self \in Handles : \E item \in items :
    Commit(getitem(Block, self, item),
           Call("getitem", self, IntOp(0), "", None, item, <<>>))

\* self.sign_extended(bitwidth)
SignExtend(widths) ==
  \E self \in Handles : \E bitwidth \in widths :
    Commit(sign_extended(Block, self, bitwidth),
           Call("sign_extended", self, IntOp(0), "", bitwidth, IntItem(0), <<>>))

\* self.zero_extended(bitwidth)
ZeroExtend(widths) ==
  \E self \in Handles : \E bitwidth \in widths :
    Commit(zero_extended(Block, self, bitwidth),
           Call("zero_extended", self, IntOp(0), "", bitwidth, IntItem(0), <<>>))

\* self.extended(bitwidth)
Extend(widths) ==
  \E self \in Handles : \E bitwidth \in widths :
    Commit(extended(Block, self, bitwidth),
           Call("extended", self, IntOp(0), "", bitwidth, IntItem(0), <<>>))

\* r.next <<= other
Stage(ints) ==
  \E self \in Registers : \E other \in Operands(ints) :
    Commit(next_stmt(Block, self, other, under),
           Call("next", self, other, "", None, IntItem(0), <<>>))

\* r.next = other, with no <<=
NextAssign(ints) ==
  \E self \in Registers : \E other \in Operands(ints) :
    Commit(next_setter(Block, self, FALSE, None, under),
           Call("setnext", self, other, "", None, IntItem(0), <<>>))

\* A conditional scope is entered and left by the caller.
EnterCondition ==
  /\ ~under
  /\ budget > 0
  /\ under' = TRUE
  /\ UNCHANGED <<wirevector, logic, regcalls, drive, budget, last>>

ExitCondition ==
  /\ under
  /\ budget > 0
  /\ under' = FALSE
  /\ UNCHANGED <<wirevector, logic, regcalls, drive, budget, last>>

\* ------------------------------------------------------ the declarations
Handle(code, bitwidth, val) ==
  [code |-> code, bitwidth |-> bitwidth, val |-> val, reg_in |-> None,
   is_conditional |-> FALSE]

Start(cast, drv, calls) ==
  /\ wirevector = cast
  /\ logic = <<>>
  /\ regcalls = <<>>
  /\ under = FALSE
  /\ drive = drv
  /\ budget = calls
  /\ last = NoCall

\* ------------------------------------------------- a construction pass
\* A plain or output handle, an input and a register are declared; the pass
\* then makes MaxCalls calls of any kind.
FewInts == {-1, MaxInt}

FewItems == {IntItem(-1), IntItem(MaxWidth), SliceItem(1, None, None)}

FewStrs == {<<"2", "'", "b", "1", "1">>, <<"1", "'", "b", "1", "1">>, <<"b", "1">>}

Init ==
  \E c1 \in PlainCodes \cup OutputCodes, w1 \in {None, MaxWidth} :
    Start(<<Handle(c1, w1, None), Handle("I", 1, None), Handle("R", MaxWidth, None)>>,
          <<>>, MaxCalls)

Next ==
  \/ Declare({"W", "SI", "R"}, {None, 0, 1})
  \/ NewConst(FewInts, {None, 0, MaxWidth})
  \/ NewConstStr(FewStrs, {None, MaxWidth})
  \/ Assign(FewInts)
  \/ Binary({"-", "*"}, FewInts)
  \/ RBinary({"-"}, FewInts)
  \/ Invert
  \/ GetItem(FewItems)
  \/ SignExtend({1, MaxWidth + 1})
  \/ ZeroExtend({1, MaxWidth + 1})
  \/ Extend({1, MaxWidth + 1})
  \/ Stage(FewInts)
  \/ NextAssign({MaxInt})
  \/ EnterCondition
  \/ ExitCondition

Spec == Init /\ [][Next]_vars

\* ------------------------------------------------ staging a register
\* A register and a plain handle are declared; the pass stages the register's
\* next value, in and out of a conditional scope, RegCalls times.
InitReg ==
  \E c1 \in RegisterCodes, w1 \in {None} \cup (1..MaxWidth),
     c2 \in PlainCodes, w2 \in 1..MaxWidth :
    Start(<<Handle(c1, w1, None), Handle(c2, w2, None)>>, <<>>, RegCalls)

NextReg ==
  \/ Stage(0..MaxInt)
  \/ NextAssign({0})
  \/ EnterCondition
  \/ ExitCondition

SpecReg == InitReg /\ [][NextReg]_vars

\* ------------------------------------------------- one operator call
\* Two handles are declared: one of any class, one plain.  A declared Const
\* holds the largest value of its width.
AllCodes == UnsignedCodes \cup SignedCodes

Declared(code, bitwidth) ==
  Handle(code, bitwidth, IF code \in ConstCodes THEN Pow2(bitwidth) - 1 ELSE None)

InitOp ==
  \E c1 \in AllCodes, w1 \in 1..OpWidth, c2 \in PlainCodes, w2 \in 1..OpWidth :
    Start(<<Declared(c1, w1), Declared(c2, w2)>>, <<>>, 1)

NextOp ==
  \/ Binary(BinaryOps, 0..MaxInt)
  \/ RBinary({"&", "|", "^", "+", "-", "*"}, 0..MaxInt)
  \/ Invert

SpecOp == InitOp /\ [][NextOp]_vars

\* ------------------------------------------------ one extension call
\* One handle of any class is declared, with the value v on it.
InitExt ==
  \E c1 \in AllCodes, w1 \in 1..ExtWidth :
    \E v \in 0..(Pow2(w1) - 1) :
      Start(<<Handle(c1, w1, IF c1 \in ConstCodes THEN v ELSE None)>>, <<v>>, 1)

NextExt ==
  \/ SignExtend(1..(2 * ExtWidth))
  \/ ZeroExtend(1..(2 * ExtWidth))
  \/ Extend(1..(2 * ExtWidth))

SpecExt == InitExt /\ [][NextExt]_vars

\* ----------------------------------------------------- one indexing
SliceEnds == (0 - SliceWidth - 1)..(SliceWidth + 1)

AllItems ==
  {IntItem(i) : i \in SliceEnds}
  \cup {SliceItem(a, z, st) : a \in {None} \cup SliceEnds, z \in {None} \cup SliceEnds,
                              st \in {None, -3, -2, -1, 0, 1, 2, 3}}

InitSlice ==
  \E c1 \in {"W", "SR"}, w1 \in 1..SliceWidth :
    Start(<<Handle(c1, w1, None)>>, <<>>, 1)

NextSlice == GetItem(AllItems)

SpecSlice == InitSlice /\ [][NextSlice]_vars

\* ------------------------------------------------------- one Const
WidthStrs == {<<"2">>, <<"3">>, <<"0">>, <<"1", "0">>, <<"-", "1">>, <<"x">>, <<>>}

BodyStrs ==
  {<<"b", "1", "0", "1">>, <<"b", "1", "1">>, <<"b", "0">>, <<"b", "1", "2">>,
   <<"b">>, <<"5">>, <<"8">>, <<"x", "f">>, <<"h", "f">>, <<"o", "7">>,
   <<"-", "1">>, <<>>}

Literals ==
  {w \o <<"'">> \o d : w \in WidthStrs, d \in BodyStrs}
  \cup {<<"3", "b", "1", "0", "1">>, <<"3", "'", "'", "b", "1">>, <<>>}

InitConst == Start(<<>>, <<>>, 1)

NextConst ==
  \/ NewConst(-2..Pow2(MaxWidth + 1), {None} \cup (-1..(MaxWidth + 2)))
  \/ NewConstStr(Literals, {None, 3})

SpecConst == InitConst /\ [][NextConst]_vars

\* ================================================================ claims
\* What the last call added to the block, and what was there before it.
Before == last.b0

NewNets == (Len(Before.nets) + 1)..Len(logic)

NewWires == (Len(Before.wv) + 1)..Len(wirevector)

Width(h) == wirevector[h].bitwidth

Range(s) == {s[i] : i \in DOMAIN s}

Max(x, y) == IF x < y THEN y ELSE x

Writers(h) == {k \in 1..Len(logic) : h \in Range(logic[k].dests)}

RNets(r) == {k \in 1..Len(logic) : logic[k].op = "r" /\ logic[k].dests = <<r>>}

Registrations(r) == {i \in 1..Len(regcalls) : regcalls[i][1] = r}

ExtCalls == {"sign_extended", "zero_extended", "extended"}

\* h is src widened to m bits by the last call: src itself when it has m
\* bits, else the concat of an extension block above src, the block being one
\* select net that repeats bit 0 of a one-bit source m - Width(src) times; the
\* source is src's top bit (signmode) or a constant 0.
ExtensionOf(h, src, m, signmode) ==
  /\ Width(h) = m
  /\ IF Width(src) = m THEN h = src
     ELSE \E c \in NewNets, e \in NewNets :
            /\ logic[c].op = "c"
            /\ logic[c].dests = <<h>>
            /\ Len(logic[c].args) = 2
            /\ logic[c].args[2] = src
            /\ logic[e].op = "s"
            /\ logic[e].dests = <<logic[c].args[1]>>
            /\ logic[e].op_param = [k \in 1..(m - Width(src)) |-> 0]
            /\ Width(logic[c].args[1]) = m - Width(src)
            /\ Len(logic[e].args) = 1
            /\ LET bit == logic[e].args[1]
               IN /\ Width(bit) = 1
                  /\ IF signmode
                     THEN \E g \in NewNets :
                            /\ logic[g].op = "s"
                            /\ logic[g].dests = <<bit>>
                            /\ logic[g].args = <<src>>
                            /\ logic[g].op_param = <<Width(src) - 1>>
                     ELSE wirevector[bit].code = "C" /\ wirevector[bit].val = 0

SignMode(h) == wirevector[h].code \in SignedCodes

\* h is the operand `other` as as_wires hands it on, at `width` bits.
Coerced(h, other, width) ==
  /\ Width(h) = width
  /\ IF other.int
     THEN wirevector[h].code = "C" /\ wirevector[h].val = other.v
     ELSE ExtensionOf(h, other.v, width, SignMode(other.v))

\* ---------------------------------------------------------------- C1
\* C1: a successful `r.next <<= x` commits exactly once.  Outside a
\* conditional scope it adds exactly one 'r' net, the last net of the block,
\* whose one input is the coerced x (kept as the register's reg_in) and whose
\* one output is r, and it makes no call to the resolver.  Inside a
\* conditional scope it adds no net of its own (only what coercing x needs,
\* nothing when x needs no widening) and makes exactly one call
\* _register_set(r, coerced x).
C1_StagingCommitsOnce ==
  (last.call = "next" /\ ~last.err) =>
    LET r == last.self
        rnets == {k \in NewNets : logic[k].op = "r"}
        plain == last.other.int \/ Before.wv[r].bitwidth = None
                   \/ Before.wv[last.other.v].bitwidth = Before.wv[r].bitwidth
    IN IF ~last.cond
       THEN /\ rnets = {Len(logic)}
            /\ RNets(r) = rnets
            /\ Len(logic[Len(logic)].args) = 1
            /\ logic[Len(logic)].dests = <<r>>
            /\ Coerced(logic[Len(logic)].args[1], last.other, Width(r))
            /\ wirevector[r].reg_in = logic[Len(logic)].args[1]
            /\ plain => NewNets = {Len(logic)}
            /\ regcalls = Before.calls
       ELSE /\ \A k \in NewNets : logic[k].op \in {"s", "c"} /\ r \notin Range(logic[k].dests)
            /\ plain => NewNets = {}
            /\ Len(regcalls) = Len(Before.calls) + 1
            /\ SubSeq(regcalls, 1, Len(Before.calls)) = Before.calls
            /\ regcalls[Len(regcalls)][1] = r
            /\ Coerced(regcalls[Len(regcalls)][2], last.other, Width(r))

\* A register staged inside a conditional scope and then, successfully,
\* outside one: both paths have committed.
C1_Witness ==
  /\ last.call = "next"
  /\ ~last.err
  /\ ~last.cond
  /\ Registrations(last.self) # {}
  /\ RNets(last.self) # {}

C3_SingleStaticWriter ==
  \A h \in Handles :
    wirevector[h].code \in PlainCodes \cup OutputCodes => Cardinality(Writers(h)) <= 1

\* ---------------------------------------------------------------- C4
\* C4: error atomicity: a call that raises (an extension, a staging of a
\* next value, an assignment to .next without <<=, a direct write to an
\* Input, Const or Register, a Const construction) leaves the block's nets
\* exactly as they were before the call.
C4_ErrorAtomicity ==
  (/\ last.err
   /\ \/ last.call \in ExtCalls \cup {"next", "setnext", "const", "conststr"}
      \/ /\ last.call = "ilshift"
         /\ Before.wv[last.self].code \in InputCodes \cup ConstCodes \cup RegisterCodes)
    => logic = Before.nets

\* ---------------------------------------------------------------- C5
\* C5: extension idempotence: extending a handle to its own width, by
\* extended, zero_extended or sign_extended, returns the handle itself and
\* adds no net to the block.
C5_ExtensionIdempotent ==
  (last.call \in ExtCalls /\ last.arg = Before.wv[last.self].bitwidth) =>
    /\ ~last.err
    /\ last.ret = last.self
    /\ logic = Before.nets

\* ---------------------------------------------------------------- C6
\* The result width the rule table gives for operands equalized to m bits.
ExpectedWidth(op, m) ==
  CASE op \in {"&", "|", "^"} -> m
    [] op \in {"+", "-"} -> m + 1
    [] op = "*" -> 2 * m
    [] op \in {"<", ">", "="} -> 1

\* The handle logicop works on for the operand `other`: the handle itself, or
\* the Const as_wires builds first for a plain integer.
OperandHandle == IF last.other.int THEN Len(Before.wv) + 1 ELSE last.other.v

\* C6: the width-inference rule table.  A binary operator call on handles of
\* widths wa and wb (a plain integer counts with its minimal width) succeeds
\* and adds exactly one operator net, the last net of the block: its two
\* inputs are the two operands, each widened to max(wa, wb) bits by its own
\* class's extension rule, and its one output is a fresh handle whose width
\* is max for and/or/xor, max + 1 for add/subtract, 2 * max for multiply and
\* 1 for the comparisons.  ~h adds one net with the single input h and a
\* fresh output of h's width.
C6_WidthRuleTable ==
  /\ (last.call \in {"binary", "rbinary"}) =>
       LET a == last.self
           b == OperandHandle
           m == Max(Width(a), Width(b))
           net == logic[Len(logic)]
       IN /\ ~last.err
          /\ {k \in NewNets : logic[k].op \notin {"s", "c"}} = {Len(logic)}
          /\ last.other.int =>
               /\ wirevector[b].val = last.other.v
               /\ last.other.v < Pow2(Width(b))
               /\ Width(b) > 1 => Pow2(Width(b) - 1) <= last.other.v
          /\ net.op = last.op
          /\ Len(net.args) = 2
          /\ Width(net.args[1]) = m
          /\ Width(net.args[2]) = m
          /\ \/ /\ ExtensionOf(net.args[1], a, m, SignMode(a))
                /\ ExtensionOf(net.args[2], b, m, SignMode(b))
             \/ /\ ExtensionOf(net.args[1], b, m, SignMode(b))
                /\ ExtensionOf(net.args[2], a, m, SignMode(a))
          /\ net.dests = <<last.ret>>
          /\ last.ret \in NewWires
          /\ Writers(last.ret) = {Len(logic)}
          /\ Width(last.ret) = ExpectedWidth(last.op, m)
  /\ (last.call = "invert") =>
       /\ ~last.err
       /\ NewNets = {Len(logic)}
       /\ logic[Len(logic)].op = "~"
       /\ logic[Len(logic)].args = <<last.self>>
       /\ logic[Len(logic)].dests = <<last.ret>>
       /\ last.ret \in NewWires
       /\ Width(last.ret) = Width(last.self)

\* A multiply of operands of unequal widths: the result has twice the larger
\* width, which is more than the sum of the two.
C6_Witness ==
  /\ last.call = "binary"
  /\ last.op = "*"
  /\ ~last.err
  /\ ~last.other.int
  /\ Width(last.self) < Width(last.other.v)
  /\ Width(last.ret) = 2 * Width(last.other.v)
  /\ Width(last.ret) > Width(last.self) + Width(last.other.v)

\* ---------------------------------------------------------------- C7
\* C7: sign versus zero extension.  Extending a handle of width w that holds
\* v to t > w bits succeeds with a handle of width t whose low w bits are v
\* and whose upper t - w bits are all 0 for zero_extended and an unsigned
\* class's extended, and all equal to bit w-1 of v for sign_extended and a
\* signed class's extended.  The upper bits are one select net repeating one
\* bit t - w times, concatenated above the handle.
C7_SignVsZeroExtension ==
  (last.call \in ExtCalls /\ last.arg > Before.wv[last.self].bitwidth) =>
    LET h == last.self
        w == Width(h)
        t == last.arg
        v == Eval(wirevector, logic, drive, h)
        signmode == last.call = "sign_extended"
                      \/ (last.call = "extended" /\ SignMode(h))
    IN /\ ~last.err
       /\ Width(last.ret) = t
       /\ Eval(wirevector, logic, drive, last.ret) % Pow2(w) = v
       /\ Eval(wirevector, logic, drive, last.ret) \div Pow2(w)
            = (IF signmode /\ Bit(v, w - 1) = 1 THEN Pow2(t - w) - 1 ELSE 0)
       /\ ExtensionOf(last.ret, h, t, signmode)
       /\ (w = 4 /\ v = 10 /\ t = 8) =>
            Eval(wirevector, logic, drive, last.ret) = (IF signmode THEN 250 ELSE 10)

\* The 4-bit value 0b1010 on a handle of a signed class, extended to 8 bits
\* by the class's own rule: 0b11111010.
C7_Witness ==
  /\ last.call = "extended"
  /\ ~last.err
  /\ SignMode(last.self)
  /\ Width(last.self) = 4
  /\ drive = <<10>>
  /\ last.arg = 8
  /\ Eval(wirevector, logic, drive, last.ret) = 250

\* ---------------------------------------------------------------- C8
\* What Python selects from [0, ..., n-1]: for an integer the one position
\* (counted from the end when negative); for a slice the positions from the
\* clamped start up (or down) to the clamped stop, every step-th one.
Norm(x, n) == IF x < 0 THEN x + n ELSE x

Clamp(x, lo, hi) == IF x < lo THEN lo ELSE IF x > hi THEN hi ELSE x

Picked(n, item) ==
  IF item.isint THEN {Norm(item.i, n)}
  ELSE LET st == IF item.step = None THEN 1 ELSE item.step
       IN IF st > 0
          THEN LET first == IF item.start = None THEN 0
                            ELSE Clamp(Norm(item.start, n), 0, n)
                   bound == IF item.stop = None THEN n
                            ELSE Clamp(Norm(item.stop, n), 0, n)
               IN {j \in 0..(n - 1) : j >= first /\ j < bound /\ (j - first) % st = 0}
          ELSE LET first == IF item.start = None THEN n - 1
                            ELSE Clamp(Norm(item.start, n), -1, n - 1)
                   bound == IF item.stop = None THEN -1
                            ELSE Clamp(Norm(item.stop, n), -1, n - 1)
               IN {j \in 0..(n - 1) : j <= first /\ j > bound
                                        /\ (first - j) % (0 - st) = 0}

Descending(item) == ~item.isint /\ item.step # None /\ item.step < 0

\* p lists exactly the positions of S, going up, or down for a negative step.
Lists(p, S, down) ==
  /\ Range(p) = S
  /\ Len(p) = Cardinality(S)
  /\ \A k \in 1..(Len(p) - 1) : IF down THEN p[k] > p[k + 1] ELSE p[k] < p[k + 1]

\* The last call was self[item] and added exactly one net, a select net with
\* the single input self, the positions Python selects as its parameter, and
\* a fresh output with one bit for each of them.
SelectsAsPython ==
  /\ ~last.err
  /\ NewNets = {Len(logic)}
  /\ logic[Len(logic)].op = "s"
  /\ logic[Len(logic)].args = <<last.self>>
  /\ logic[Len(logic)].dests = <<last.ret>>
  /\ last.ret \in NewWires
  /\ Lists(logic[Len(logic)].op_param, Picked(Width(last.self), last.item),
           Descending(last.item))
  /\ Range(logic[Len(logic)].op_param) \subseteq 0..(Width(last.self) - 1)
  /\ Width(last.ret) = Len(logic[Len(logic)].op_param)

\* The index expressions Python itself accepts on a list of n elements.
Indexable == ~ItemRaises(Before.wv[last.self].bitwidth, last.item)

\* C8 as claimed: every integer index and every slice adds exactly one select
\* net whose parameter is what the index selects from [0, ..., w-1], with a
\* result of that many bits.
C8_EveryIndexSelects == (last.call = "getitem" /\ Indexable) => SelectsAsPython

\* C8 as amended: every integer index and every slice that selects at least
\* one bit adds exactly one such select net; a slice that selects no bit
\* raises the bitwidth error and adds no net and no handle.  On an 8-bit
\* handle h[-4:] selects (4,5,6,7), h[0:2] selects (0,1), h[-1] selects (7).
C8_NonEmptyIndexSelects ==
  (last.call = "getitem" /\ Indexable) =>
    /\ IF Picked(Width(last.self), last.item) = {}
       THEN last.err /\ logic = Before.nets /\ wirevector = Before.wv
       ELSE SelectsAsPython
    /\ (Width(last.self) = 8 /\ last.item = SliceItem(-4, None, None)) =>
         logic[Len(logic)].op_param = <<4, 5, 6, 7>>
    /\ (Width(last.self) = 8 /\ last.item = SliceItem(0, 2, None)) =>
         logic[Len(logic)].op_param = <<0, 1>>
    /\ (Width(last.self) = 8 /\ last.item = IntItem(-1)) =>
         logic[Len(logic)].op_param = <<7>>

\* h[-4:] on an 8-bit handle: a 4-bit result selecting (4,5,6,7).
C8_Witness ==
  /\ last.call = "getitem"
  /\ ~last.err
  /\ Width(last.self) = 8
  /\ last.item = SliceItem(-4, None, None)
  /\ logic[Len(logic)].op_param = <<4, 5, 6, 7>>
  /\ Width(last.ret) = 4

\* ---------------------------------------------------------------- C9
Lit3b101 == <<"3", "'", "b", "1", "0", "1">>

Lit2b101 == <<"2", "'", "b", "1", "0", "1">>

\* C9: Const validity.  Every Const in the block has a positive bitwidth and
\* a value with 0 <= value < 2^bitwidth.  Const(val, bitwidth) for an int
\* stores val itself, at the given bitwidth or, when none is given, at the
\* least width that holds it (1 for 0); it raises, adding no handle, for a
\* negative value, a bitwidth <= 0 or a value that does not fit.  "3'b101"
\* gives width 3, value 5; "2'b101" raises.
C9_ConstValidity ==
  /\ \A h \in Handles :
       wirevector[h].code \in ConstCodes =>
         /\ wirevector[h].bitwidth >= 1
         /\ wirevector[h].val >= 0
         /\ wirevector[h].val < Pow2(wirevector[h].bitwidth)
  /\ (last.call = "const") =>
       LET val == last.other.v
           bad == \/ val < 0
                  \/ last.arg # None /\ last.arg <= 0
                  \/ last.arg # None /\ val >= Pow2(last.arg)
       IN IF bad
          THEN last.err /\ wirevector = Before.wv
          ELSE /\ ~last.err
               /\ NewWires = {last.ret}
               /\ wirevector[last.ret].code = last.op
               /\ wirevector[last.ret].val = val
               /\ last.arg # None => Width(last.ret) = last.arg
               /\ last.arg = None =>
                    /\ val < Pow2(Width(last.ret))
                    /\ Width(last.ret) > 1 => Pow2(Width(last.ret) - 1) <= val
  /\ (last.call = "conststr" /\ last.arg = None /\ last.str = Lit3b101) =>
       /\ ~last.err
       /\ NewWires = {last.ret}
       /\ Width(last.ret) = 3
       /\ wirevector[last.ret].val = 5
  /\ (last.call = "conststr" /\ last.str = Lit2b101) =>
       last.err /\ wirevector = Before.wv

\* Const("3'b101"): width 3, value 5.
C9_Witness ==
  /\ last.call = "conststr"
  /\ last.str = Lit3b101
  /\ ~last.err
  /\ Width(last.ret) = 3
  /\ wirevector[last.ret].val = 5

\* --------------------------------------------------------------- C10
\* C10: operand order of the reflected subtraction: k - w adds a subtract net
\* whose first input is the coerced k (the Const, or the Const widened) and
\* whose second input is w (or w widened).
C10_ReflectedSubtractOrder ==
  (last.call = "rbinary" /\ last.op = "-" /\ ~last.err) =>
    LET w == last.self
        k == OperandHandle
        m == Max(Width(w), Width(k))
        net == logic[Len(logic)]
    IN /\ net.op = "-"
       /\ ExtensionOf(net.args[1], k, m, SignMode(k))
       /\ ExtensionOf(net.args[2], w, m, SignMode(w))
====
